---- MODULE Spec2Model ----
(***************************************************************************)
(* docker/seed.py: provision one DynamoDB table (ensure_table and its two  *)
(* polling waits) and seed it with a Chinook-like dataset (seed_data),     *)
(* driven by main.                                                         *)
(*                                                                         *)
(* The table service is the environment: it answers describe_table,        *)
(* delete_table, create_table and put_item, any of which may raise a       *)
(* ClientError, and it finishes a creation (CREATING -> ACTIVE) or a       *)
(* deletion (DELETING -> gone) on its own schedule.  No other client       *)
(* touches the table.                                                      *)
(*                                                                         *)
(* Strings are TLA+ strings built the way the f-strings build them.  Time  *)
(* is counted in ticks of one time.sleep(0.5).  Money is counted in cents; *)
(* a Python float is an integer number of FloatUnitsPerCent-ths of a cent  *)
(* that may be off by a bounded representation error.                      *)
(***************************************************************************)
EXTENDS Integers, Sequences, FiniteSets, TLC

VARIABLES
    args,       \* parse_args(): the three policy flags and the six sizes
    table,      \* the service's table: status and secondary indexes
    table0,     \* the table as it was when the run started (never changes)
    pc,         \* where main / ensure_table / seed_data stands
    exists,     \* ensure_table's local `exists`
    existed,    \* main's local `existed` (ensure_table's return value)
    elapsed,    \* ticks since `start` of the wait in progress
    calls,      \* the table-level requests issued so far, in order
    raised,     \* the exception that ended the run, "" if none
    exitCode,   \* the process's exit status, NoExit while running
    seed,       \* seed_data's locals
    puts,       \* every Item handed to b.put_item, in order
    items       \* what the table stores: last put per (PK, SK)

vars == <<args, table, table0, pc, exists, existed, elapsed, calls, raised,
          exitCode, seed, puts, items>>

----------------------------------------------------------------------------
(* Bounds of the model *)

\* describe_table takes 0..MaxLatency ticks to answer
MaxLatency == 1
\* a float is off by at most FloatErr units after one `total += price * qty`
FloatErr == 1
\* timestamps an invoice can draw (days back from now)
MaxDaysBack == 1

(* Program constants *)

\* wait_table_active / wait_deleted: timeout_s: int = 60
timeout_s == 60
\* time.sleep(0.5): two polls per second
TicksPerSecond == 2
\* random.randint(1, 3)
MaxQty == 3
\* exit status of a run that is still going
NoExit == 0 - 1

TimeoutTicks == timeout_s * TicksPerSecond
\* `elapsed` saturates here: every value above TimeoutTicks compares alike
ElapsedCap == TimeoutTicks + MaxLatency + 2

Min(a, b) == IF a < b THEN a ELSE b

----------------------------------------------------------------------------
(* The table's description, as describe_table returns it *)

KeyElem(attr, kt) == [AttributeName |-> attr, KeyType |-> kt]
Index(name, ks)   == [IndexName |-> name, KeySchema |-> ks]

\* create_table's GlobalSecondaryIndexes and LocalSecondaryIndexes
CreateGSIs == <<Index("GSI1", <<KeyElem("GSI1PK", "HASH"), KeyElem("GSI1SK", "RANGE")>>)>>
CreateLSIs == <<Index("LSI1", <<KeyElem("PK", "HASH"), KeyElem("LSI1SK", "RANGE")>>)>>

\* the index lists a pre-existing table may carry
GsiVariants ==
    { <<>>,
      CreateGSIs,
      <<Index("GSI1", <<KeyElem("GSI1PK", "HASH")>>)>>,
      <<Index("GSI2", <<KeyElem("GSI1PK", "HASH"), KeyElem("GSI1SK", "RANGE")>>)>> }
LsiVariants ==
    { <<>>,
      CreateLSIs,
      <<Index("LSI1", <<KeyElem("PK", "HASH"), KeyElem("SK", "RANGE")>>)>> }

Absent == [status |-> "ABSENT", gsis |-> <<>>, lsis |-> <<>>]

Range(s) == { s[i] : i \in DOMAIN s }

\* {k["KeyType"]: k["AttributeName"] for k in index.get("KeySchema", [])}
\* (a later element overwrites an earlier one of the same KeyType)
index_key_schema(index) ==
    LET ks == index.KeySchema
        Last(kt) == CHOOSE i \in DOMAIN ks :
                        /\ ks[i].KeyType = kt
                        /\ \A j \in DOMAIN ks : ks[j].KeyType = kt => j <= i
    IN  [ kt \in { ks[i].KeyType : i \in DOMAIN ks } |-> ks[Last(kt)].AttributeName ]

\* gsis.get("GSI1") over {g["IndexName"]: g for g in ...}: the last one so named
GetIndex(list, name) ==
    LET hits == { i \in DOMAIN list : list[i].IndexName = name }
    IN  IF hits = {} THEN <<>>
        ELSE <<list[CHOOSE i \in hits : \A j \in hits : j <= i]>>

\* missing_indexes without its LSI1 half
missing_indexes_gsi_only(desc) ==
    LET gsi1 == GetIndex(desc.gsis, "GSI1")
    IN  IF gsi1 = <<>> \/ index_key_schema(gsi1[1]) # [HASH |-> "GSI1PK", RANGE |-> "GSI1SK"]
        THEN {"GSI1"} ELSE {}

\* missing_indexes(desc): the names of the required indexes that are absent
\* or keyed differently
missing_indexes(desc) ==
    LET gsi1 == GetIndex(desc.gsis, "GSI1")
        lsi1 == GetIndex(desc.lsis, "LSI1")
    IN  (IF gsi1 = <<>> \/ index_key_schema(gsi1[1]) # [HASH |-> "GSI1PK", RANGE |-> "GSI1SK"]
         THEN {"GSI1"} ELSE {})
        \cup
        (IF lsi1 = <<>> \/ index_key_schema(lsi1[1]) # [HASH |-> "PK", RANGE |-> "LSI1SK"]
         THEN {"LSI1"} ELSE {})

----------------------------------------------------------------------------
(* How a run ends *)

\* main returns
NormalExit == 0
\* sys.exit(1) in each of main's three except clauses
ProvisionFailureExit == 1
\* an exception nobody catches: the interpreter prints it and exits with 1
UncaughtExit == 1

\* the except clauses returning instead of calling sys.exit(1)
ExitOnProvisionFailure_zero == NormalExit

\* the status main exits with when ensure_table raised, lines 373-381
ExitOnProvisionFailure == ProvisionFailureExit

Fail(kind) ==
    /\ pc' = "exit"
    /\ raised' = kind
    /\ exitCode' = ExitOnProvisionFailure

Issue(op) == calls' = Append(calls, op)

----------------------------------------------------------------------------
(* Inputs *)

Sizes(a, b, t, c, i, l) ==
    [artists |-> a, albums_per_artist |-> b, tracks_per_album |-> t,
     customers |-> c, invoices_per_customer |-> i, lines_per_invoice |-> l]

\* the sizes tried when the whole of main is explored
MainSizes == { Sizes(1, 1, 1, 1, 1, 1) }

Args(r, rim, skip, sizes) ==
    [recreate |-> r, recreate_if_missing_indexes |-> rim,
     skip_if_exists |-> skip, sizes |-> sizes]

\* the states the table can be found in when the run starts
InitialTables ==
    {Absent} \cup
    [status : {"CREATING", "ACTIVE", "DELETING"}, gsis : GsiVariants, lsis : LsiVariants]

\* seed_data's locals on entry.  ai..li count the turns each `for` has begun;
\* drawn counts the distinct ids drawn so far per prefix and collided records
\* whether rand_id ever returned an id it had returned before.
SeedLocals0 ==
    [ai |-> 0, bi |-> 0, ti |-> 0, ci |-> 0, ii |-> 0, li |-> 0,
     artist_id |-> "", album_id |-> "", cust_id |-> "", inv_id |-> "",
     ts |-> 0, invoice_lsi |-> "", total |-> 0, track_ids |-> <<>>,
     drawn |-> [p \in {"ARTIST", "ALBUM", "TRACK", "CUSTOMER", "INVOICE"} |-> 0],
     collided |-> FALSE]

Init ==
    /\ args \in { Args(r, rim, skip, sz) :
                    r \in BOOLEAN, rim \in BOOLEAN, skip \in BOOLEAN, sz \in MainSizes }
    /\ table \in InitialTables
    /\ table0 = table
    /\ pc = "ensure_table"
    /\ exists = FALSE
    /\ existed = FALSE
    /\ elapsed = 0
    /\ calls = <<>>
    /\ raised = ""
    /\ exitCode = NoExit
    /\ seed = SeedLocals0
    /\ puts = <<>>
    /\ items = {}

----------------------------------------------------------------------------
(* The service, on its own *)

\* a creation completes
TableBecomesActive ==
    /\ table.status = "CREATING"
    /\ table' = [table EXCEPT !.status = "ACTIVE"]
    /\ UNCHANGED <<args, table0, pc, exists, existed, elapsed, calls, raised,
                   exitCode, seed, puts, items>>

\* a deletion completes
TableDisappears ==
    /\ table.status = "DELETING"
    /\ table' = Absent
    /\ UNCHANGED <<args, table0, pc, exists, existed, elapsed, calls, raised,
                   exitCode, seed, puts, items>>

----------------------------------------------------------------------------
(* ensure_table *)

\* lines 146-163 without the test of recreate_if_missing_indexes
AfterDescribe_always_recreates(found, desc) ==
    IF found /\ ~args.recreate /\ missing_indexes(desc) # {}
    THEN "delete_missing"
    ELSE IF found /\ args.recreate THEN "delete_recreate"
    ELSE IF ~found \/ args.recreate THEN "create_table"
    ELSE "wait_table_active"

\* where ensure_table goes after its first describe_table, lines 146-163,
\* when the table was found (found = TRUE) resp. not found
AfterDescribe(found, desc) ==
    IF found /\ ~args.recreate /\ missing_indexes(desc) # {}
    THEN IF args.recreate_if_missing_indexes THEN "delete_missing" ELSE "raise_missing"
    ELSE IF found /\ args.recreate THEN "delete_recreate"
    ELSE IF ~found \/ args.recreate THEN "create_table"
    ELSE "wait_table_active"

\* lines 137-156: describe_table, then the validation of an existing table
EnsureTable_Describe ==
    /\ pc = "ensure_table"
    /\ \E answer \in {"ok", "ClientError"} :
         IF answer = "ClientError"
         THEN /\ Fail("ClientError")
              /\ Issue([op |-> "describe_table", error |-> "ClientError"])
              /\ UNCHANGED exists
         ELSE LET found == table.status # "ABSENT"
                  to == AfterDescribe(found, table)
              IN  /\ exists' = found
                  /\ Issue([op |-> "describe_table", found |-> found])
                  /\ IF to = "raise_missing"
                     THEN Fail("RuntimeError")
                     ELSE /\ pc' = to
                          /\ UNCHANGED <<raised, exitCode>>
    /\ UNCHANGED <<args, table, table0, existed, elapsed, seed, puts, items>>

\* delete_table not followed by wait_deleted
AfterDelete_no_wait(at) == "create_table"

\* where a successful delete_table continues
AfterDelete(at) == IF at = "delete_missing" THEN "wait_deleted_153" ELSE "wait_deleted_161"

\* lines 152 and 160: dynamo.delete_table(TableName=table_name)
EnsureTable_Delete ==
    /\ pc \in {"delete_missing", "delete_recreate"}
    /\ Issue([op |-> "delete_table"])
    /\ \E answer \in {"ok", "ClientError"} :
         IF answer = "ok" /\ table.status # "ABSENT"
         THEN /\ table' = [table EXCEPT !.status = "DELETING"]
              /\ pc' = AfterDelete(pc)
              /\ elapsed' = 0
              /\ UNCHANGED <<raised, exitCode>>
         ELSE /\ Fail("ClientError")
              /\ UNCHANGED <<table, elapsed>>
    /\ UNCHANGED <<args, table0, exists, existed, seed, puts, items>>

\* a wait without its timeout
TimedOut_never(now) == FALSE

\* time.time() - start > timeout_s
TimedOut(now) == now > TimeoutTicks

\* one turn of wait_deleted's loop, lines 206-216
wait_deleted ==
    /\ pc \in {"wait_deleted_153", "wait_deleted_161"}
    /\ \E answer \in {"ok", "ClientError"}, lat \in 0..MaxLatency :
         LET now == Min(elapsed + lat, ElapsedCap) IN
         IF answer = "ClientError"
         THEN /\ Fail("ClientError")
              /\ UNCHANGED <<exists, elapsed, calls>>
         ELSE IF table.status = "ABSENT"
         THEN /\ pc' = "create_table"
              /\ exists' = IF pc = "wait_deleted_153" THEN FALSE ELSE exists
              /\ Issue([op |-> "wait_deleted_returned"])
              /\ elapsed' = 0
              /\ UNCHANGED <<raised, exitCode>>
         ELSE IF TimedOut(now)
         THEN /\ Fail("TimeoutError")
              /\ elapsed' = now
              /\ UNCHANGED <<exists, calls>>
         ELSE /\ elapsed' = Min(now + 1, ElapsedCap)
              /\ UNCHANGED <<pc, exists, calls, raised, exitCode>>
    /\ UNCHANGED <<args, table, table0, existed, seed, puts, items>>

\* the request of lines 165-199
CreateTableRequest == [op |-> "create_table", gsis |-> CreateGSIs, lsis |-> CreateLSIs]

\* lines 163-199: dynamo.create_table(...)
EnsureTable_Create ==
    /\ pc = "create_table"
    /\ Issue(CreateTableRequest)
    /\ \E answer \in {"ok", "ClientError"} :
         IF answer = "ok" /\ table.status = "ABSENT"
         THEN /\ table' = [status |-> "CREATING",
                           gsis |-> CreateTableRequest.gsis,
                           lsis |-> CreateTableRequest.lsis]
              /\ pc' = "wait_table_active"
              /\ UNCHANGED <<raised, exitCode>>
         ELSE /\ Fail("ClientError")
              /\ UNCHANGED table
    /\ elapsed' = 0
    /\ UNCHANGED <<args, table0, exists, existed, seed, puts, items>>

\* a wait that takes CREATING for ready
IsActive_or_creating(status) == status \in {"ACTIVE", "CREATING"}

\* status == "ACTIVE", line 126
IsActive(status) == status = "ACTIVE"

\* one turn of wait_table_active's loop, lines 122-134; on return,
\* ensure_table returns `exists` to main (lines 200-202, 367)
wait_table_active ==
    /\ pc = "wait_table_active"
    /\ \E answer \in {"ok", "ClientError"}, lat \in 0..MaxLatency :
         LET now == Min(elapsed + lat, ElapsedCap) IN
         IF answer = "ClientError"
         THEN /\ Fail("ClientError")
              /\ UNCHANGED <<existed, elapsed>>
         ELSE IF table.status # "ABSENT" /\ IsActive(table.status)
         THEN /\ pc' = "ensured"
              /\ existed' = exists
              /\ elapsed' = 0
              /\ UNCHANGED <<raised, exitCode>>
         ELSE IF TimedOut(now)
         THEN /\ Fail("TimeoutError")
              /\ elapsed' = now
              /\ UNCHANGED existed
         ELSE /\ elapsed' = Min(now + 1, ElapsedCap)
              /\ UNCHANGED <<pc, existed, raised, exitCode>>
    /\ UNCHANGED <<args, table, table0, exists, calls, seed, puts, items>>

----------------------------------------------------------------------------
(* main, after ensure_table *)

\* line 383 with its `not` dropped
ShouldSkipSeed_recreate_only == existed /\ args.skip_if_exists /\ args.recreate

\* line 383: existed and args.skip_if_exists and not args.recreate
ShouldSkipSeed == existed /\ args.skip_if_exists /\ ~args.recreate

\* lines 383-399: skip the seeding, or enter seed_data
Main_AfterEnsure ==
    /\ pc = "ensured"
    /\ IF ShouldSkipSeed
       THEN /\ pc' = "exit"
            /\ exitCode' = NormalExit
       ELSE /\ pc' = "artists"
            /\ UNCHANGED exitCode
    /\ UNCHANGED <<args, table, table0, exists, existed, elapsed, calls, raised,
                   seed, puts, items>>

----------------------------------------------------------------------------
(* seed_data: strings, numbers and items *)

RECURSIVE Zeros(_)
Zeros(k) == IF k <= 0 THEN "" ELSE "0" \o Zeros(k - 1)

\* f"{n:0{w}d}" for n >= 0: zero-padded to width w, never truncated
ZeroPad(n, w) == Zeros(w - Len(ToString(n))) \o ToString(n)

\* rand_id(prefix): the ids it can return.  Ids are named in order of first
\* appearance, so a draw is either one of the ids drawn before under this
\* prefix or the next new one.
rand_id(prefix) == { prefix \o "#" \o ToString(n) : n \in 1..(seed.drawn[prefix] + 1) }

IsNewId(prefix, id) == id = prefix \o "#" \o ToString(seed.drawn[prefix] + 1)

\* seed_data's bookkeeping after a draw of `id` under `prefix`
Drawn(prefix, id) ==
    [seed EXCEPT !.drawn[prefix] = IF IsNewId(prefix, id) THEN @ + 1 ELSE @,
                 !.collided = @ \/ ~IsNewId(prefix, id)]

\* the names and years that feed an LSI1SK (one value each of the lists drawn from)
ARTIST_NAMES == {"The Meteors"}
AlbumYears == {1995}
TrackNames == {"Lost Waves"}
CustomerNames == {"Alex Smith"}

\* datetime.now(timezone.utc), as a timestamp
ClockReadings == {1762166400}
SecondsPerDay == 86400
\* round(random.uniform(0.49, 1.99), 2), in cents: the two ends of the range
PriceCents == {49, 199}

\* one cent in float units
FloatUnitsPerCent == 1000

\* round(x, 2) of a float, then str() and Decimal(): the nearest whole number
\* of cents, a tie going to the even one
RoundToCents(x) ==
    LET q == x \div FloatUnitsPerCent
        r == x % FloatUnitsPerCent
    IN  IF 2 * r < FloatUnitsPerCent THEN q
        ELSE IF 2 * r > FloatUnitsPerCent THEN q + 1
        ELSE IF q % 2 = 0 THEN q ELSE q + 1

\* the float that stands for c cents, off by e units
Float(c, e) == c * FloatUnitsPerCent + e

\* add_index_keys(item, item_type, pk, sk, lsi1sk); lsi1sk is <<>> for None
add_index_keys(item, item_type, pk, sk, lsi1sk) ==
    item @@ [GSI1PK |-> "TYPE#" \o item_type,
             GSI1SK |-> pk \o "#" \o sk,
             LSI1SK |-> IF lsi1sk # <<>> THEN lsi1sk[1] ELSE sk]

\* the attributes that decide no key (city, formed, members, title, genre,
\* milliseconds, bytes, a track's unit_price, email) are left out of the items

\* lines 247-257
ArtistItem(artist_id, name) ==
    LET item == [PK |-> artist_id, SK |-> artist_id, type |-> "Artist", name |-> name]
    IN  add_index_keys(item, "Artist", item.PK, item.SK, <<"PROFILE#" \o item.name>>)

\* lines 262-272
AlbumItem(artist_id, album_id, year) ==
    LET item == [PK |-> artist_id, SK |-> album_id, type |-> "Album",
                 album_id |-> album_id, year |-> year]
    IN  add_index_keys(item, "Album", item.PK, item.SK,
                       <<"ALBUM#" \o ZeroPad(item.year, 4) \o "#" \o album_id>>)

\* lines 277-288
TrackItem(album_id, track_id, name) ==
    LET item == [PK |-> album_id, SK |-> track_id, type |-> "Track",
                 track_id |-> track_id, name |-> name]
    IN  add_index_keys(item, "Track", item.PK, item.SK,
                       <<"TRACK#" \o item.name \o "#" \o track_id>>)

\* lines 295-304
CustomerItem(cust_id, name) ==
    LET item == [PK |-> cust_id, SK |-> "PROFILE", type |-> "Customer", name |-> name]
    IN  add_index_keys(item, "Customer", item.PK, item.SK, <<"PROFILE#" \o name>>)

\* line 311
InvoiceLsi(ts, inv_id) == "INVOICE#" \o ZeroPad(ts, 10) \o "#" \o inv_id

\* lines 313-320: the invoice as first put, without a total
InvoiceItem(cust_id, inv_id, ts, invoice_lsi) ==
    LET item == [PK |-> cust_id, SK |-> inv_id, type |-> "Invoice",
                 invoice_id |-> inv_id, ts |-> ts]
    IN  add_index_keys(item, "Invoice", item.PK, item.SK, <<invoice_lsi>>)

\* lines 327-337; price is the float, unit_price and quantity are stored as
\* Decimal(str(.)), unit_price in cents
LineItem(inv_id, line_ix, trk, price, qty) ==
    LET price_cents == RoundToCents(price)
        item == [PK |-> inv_id, SK |-> "LINE#" \o ToString(line_ix),
                 type |-> "InvoiceLine", track_id |-> trk,
                 unit_price |-> RoundToCents(price), quantity |-> qty]
    IN  add_index_keys(item, "InvoiceLine", item.PK, item.SK,
                       <<"PRICE#" \o ZeroPad(price_cents, 5) \o "#LINE#" \o ZeroPad(line_ix, 3)>>)

\* line 326 without the quantity
LineAmount_price_only(price, qty) == price

\* line 326: what one line adds to the float total
LineAmount(price, qty) == price * qty

\* lines 340-348 with the LSI1SK left to add_index_keys' default
InvoiceTotalItem_rederived(cust_id, inv_id, ts, invoice_lsi, total) ==
    LET item == [PK |-> cust_id, SK |-> inv_id, type |-> "Invoice",
                 invoice_id |-> inv_id, ts |-> ts, total |-> RoundToCents(total)]
    IN  add_index_keys(item, "Invoice", item.PK, item.SK, <<>>)

\* lines 340-348: the invoice as put again, with Decimal(str(round(total, 2)))
\* in cents
InvoiceTotalItem(cust_id, inv_id, ts, invoice_lsi, total) ==
    LET item == [PK |-> cust_id, SK |-> inv_id, type |-> "Invoice",
                 invoice_id |-> inv_id, ts |-> ts, total |-> RoundToCents(total)]
    IN  add_index_keys(item, "Invoice", item.PK, item.SK, <<invoice_lsi>>)

\* b.put_item(Item=item): the item is handed to the batch writer, and the table
\* ends up holding the last item put under each (PK, SK).  `inv` names the
\* turn of the invoice loop that issued the put (<<0, 0>> outside of it).
Put(item, inv) ==
    /\ puts' = Append(puts, [Item |-> item, inv |-> inv])
    /\ items' = { i \in items : ~(i.PK = item.PK /\ i.SK = item.SK) } \cup {item}

ProvisionVars == <<args, table, table0, exists, existed, elapsed, calls>>

----------------------------------------------------------------------------
(* seed_data: the loops *)

sizes == args.sizes

\* the artist loop stopping one turn early
MoreArtists_one_short == seed.ai < sizes.artists - 1

\* for _ in range(artists_ct), line 244
MoreArtists == seed.ai < sizes.artists

\* lines 245-258: one artist
ArtistPut ==
    /\ pc = "artists"
    /\ MoreArtists
    /\ \E artist_id \in rand_id("ARTIST"), name \in ARTIST_NAMES :
         /\ seed' = [Drawn("ARTIST", artist_id) EXCEPT
                        !.ai = @ + 1, !.bi = 0, !.artist_id = artist_id]
         /\ Put(ArtistItem(artist_id, name), <<0, 0>>)
    /\ pc' = "albums"
    /\ UNCHANGED <<ProvisionVars, raised, exitCode>>

\* the artist loop is over: on to the customers, line 292
ArtistsDone ==
    /\ pc = "artists"
    /\ ~MoreArtists
    /\ pc' = "customers"
    /\ UNCHANGED <<ProvisionVars, raised, exitCode, seed, puts, items>>

\* lines 260-273: one album of the current artist
AlbumPut ==
    /\ pc = "albums"
    /\ seed.bi < sizes.albums_per_artist
    /\ \E album_id \in rand_id("ALBUM"), year \in AlbumYears :
         /\ seed' = [Drawn("ALBUM", album_id) EXCEPT
                        !.bi = @ + 1, !.ti = 0, !.album_id = album_id]
         /\ Put(AlbumItem(seed.artist_id, album_id, year), <<0, 0>>)
    /\ pc' = "tracks"
    /\ UNCHANGED <<ProvisionVars, raised, exitCode>>

\* the album loop of this artist is over
AlbumsDone ==
    /\ pc = "albums"
    /\ ~(seed.bi < sizes.albums_per_artist)
    /\ pc' = "artists"
    /\ UNCHANGED <<ProvisionVars, raised, exitCode, seed, puts, items>>

\* lines 275-289: one track of the current album
TrackPut ==
    /\ pc = "tracks"
    /\ seed.ti < sizes.tracks_per_album
    /\ \E track_id \in rand_id("TRACK"), name \in TrackNames :
         /\ seed' = [Drawn("TRACK", track_id) EXCEPT
                        !.ti = @ + 1, !.track_ids = Append(@, track_id)]
         /\ Put(TrackItem(seed.album_id, track_id, name), <<0, 0>>)
    /\ UNCHANGED <<ProvisionVars, pc, raised, exitCode>>

\* the track loop of this album is over
TracksDone ==
    /\ pc = "tracks"
    /\ ~(seed.ti < sizes.tracks_per_album)
    /\ pc' = "albums"
    /\ UNCHANGED <<ProvisionVars, raised, exitCode, seed, puts, items>>

\* lines 293-305: one customer
CustomerPut ==
    /\ pc = "customers"
    /\ seed.ci < sizes.customers
    /\ \E cust_id \in rand_id("CUSTOMER"), name \in CustomerNames :
         /\ seed' = [Drawn("CUSTOMER", cust_id) EXCEPT
                        !.ci = @ + 1, !.ii = 0, !.cust_id = cust_id]
         /\ Put(CustomerItem(cust_id, name), <<0, 0>>)
    /\ pc' = "invoices"
    /\ UNCHANGED <<ProvisionVars, raised, exitCode>>

\* the customer loop is over: the batch writer is closed, seed_data returns
\* and main prints "Done." and returns, lines 399-400
CustomersDone ==
    /\ pc = "customers"
    /\ ~(seed.ci < sizes.customers)
    /\ pc' = "exit"
    /\ exitCode' = NormalExit
    /\ UNCHANGED <<ProvisionVars, raised, seed, puts, items>>

\* lines 308-321: one invoice of the current customer, put without a total
InvoicePut ==
    /\ pc = "invoices"
    /\ seed.ii < sizes.invoices_per_customer
    /\ \E inv_id \in rand_id("INVOICE"), now \in ClockReadings, days \in 0..MaxDaysBack :
         LET ts == now - days * SecondsPerDay
             invoice_lsi == InvoiceLsi(ts, inv_id)
         IN  /\ seed' = [Drawn("INVOICE", inv_id) EXCEPT
                            !.ii = @ + 1, !.li = 0, !.inv_id = inv_id, !.ts = ts,
                            !.invoice_lsi = invoice_lsi, !.total = 0]
             /\ Put(InvoiceItem(seed.cust_id, inv_id, ts, invoice_lsi),
                    <<seed.ci, seed.ii + 1>>)
    /\ pc' = "lines"
    /\ UNCHANGED <<ProvisionVars, raised, exitCode>>

\* the invoice loop of this customer is over
InvoicesDone ==
    /\ pc = "invoices"
    /\ ~(seed.ii < sizes.invoices_per_customer)
    /\ pc' = "customers"
    /\ UNCHANGED <<ProvisionVars, raised, exitCode, seed, puts, items>>

\* random.choice(track_ids) if track_ids else rand_id("TRACK"), line 323
TrackChoices ==
    IF seed.track_ids # <<>> THEN Range(seed.track_ids) ELSE rand_id("TRACK")

\* lines 323-338: one line of the current invoice
LinePut ==
    /\ pc = "lines"
    /\ seed.li < sizes.lines_per_invoice
    /\ \E trk \in TrackChoices, c \in PriceCents, e \in (0 - FloatErr)..FloatErr,
          qty \in 1..MaxQty :
         LET price == Float(c, e)
             line_ix == seed.li + 1
             afterDraw == IF seed.track_ids # <<>> THEN seed ELSE Drawn("TRACK", trk)
         IN  /\ seed' = [afterDraw EXCEPT
                            !.li = @ + 1, !.total = @ + LineAmount(price, qty)]
             /\ Put(LineItem(seed.inv_id, line_ix, trk, price, qty),
                    <<seed.ci, seed.ii>>)
    /\ UNCHANGED <<ProvisionVars, pc, raised, exitCode>>

\* lines 339-349: the lines are over; the invoice is put again, with its total
InvoiceTotalPut ==
    /\ pc = "lines"
    /\ ~(seed.li < sizes.lines_per_invoice)
    /\ Put(InvoiceTotalItem(seed.cust_id, seed.inv_id, seed.ts, seed.invoice_lsi,
                            seed.total),
           <<seed.ci, seed.ii>>)
    /\ pc' = "invoices"
    /\ UNCHANGED <<ProvisionVars, raised, exitCode, seed>>

SeedingPcs == {"artists", "albums", "tracks", "customers", "invoices", "lines"}

\* a write fails inside seed_data: nothing catches it, lines 387-399
SeedWriteError ==
    /\ pc \in SeedingPcs
    /\ pc' = "exit"
    /\ raised' = "WriteError"
    /\ exitCode' = UncaughtExit
    /\ UNCHANGED <<ProvisionVars, seed, puts, items>>

----------------------------------------------------------------------------
(* Specifications *)

Service == TableBecomesActive \/ TableDisappears

SeedData ==
    \/ ArtistPut \/ ArtistsDone \/ AlbumPut \/ AlbumsDone \/ TrackPut \/ TracksDone
    \/ CustomerPut \/ CustomersDone \/ InvoicePut \/ InvoicesDone
    \/ LinePut \/ InvoiceTotalPut \/ SeedWriteError

Program ==
    \/ EnsureTable_Describe \/ EnsureTable_Delete \/ wait_deleted
    \/ EnsureTable_Create \/ wait_table_active \/ Main_AfterEnsure
    \/ SeedData

Next == Service \/ Program

\* a whole run of main, from any initial table
Spec == Init /\ [][Next]_vars

\* the same, with the process always taking its next step: a blocking call
\* returns and the interpreter goes on
LiveSpec == Init /\ [][Next]_vars /\ WF_vars(Program)

\* the sizes tried when seed_data is explored by itself
SeedSizes ==
    { Sizes(2, 1, 1, 1, 1, 2),
      Sizes(1, 2, 2, 1, 1, 0),
      Sizes(0, 0, 0, 1, 2, 1) }

\* main at line 387 of a run that found no table and created it
SeedInit ==
    /\ args \in { Args(FALSE, FALSE, FALSE, sz) : sz \in SeedSizes }
    /\ table = [status |-> "ACTIVE", gsis |-> CreateGSIs, lsis |-> CreateLSIs]
    /\ table0 = Absent
    /\ pc = "artists"
    /\ exists = FALSE
    /\ existed = FALSE
    /\ elapsed = 0
    /\ calls = <<[op |-> "describe_table", found |-> FALSE], CreateTableRequest>>
    /\ raised = ""
    /\ exitCode = NoExit
    /\ seed = SeedLocals0
    /\ puts = <<>>
    /\ items = {}

\* seed_data alone, on a freshly created table
SeedSpec == SeedInit /\ [][SeedData]_vars

----------------------------------------------------------------------------
(* What the claims speak of *)

\* the index list holds an index of this name keyed HASH hash / RANGE range
HasIndex(list, name, hash, range) ==
    \E i \in DOMAIN list :
        /\ list[i].IndexName = name
        /\ Range(list[i].KeySchema) = {KeyElem(hash, "HASH"), KeyElem(range, "RANGE")}

\* the table carries GSI1 and LSI1 with the expected key schemas
HasBothIndexes(t) ==
    /\ HasIndex(t.gsis, "GSI1", "GSI1PK", "GSI1SK")
    /\ HasIndex(t.lsis, "LSI1", "PK", "LSI1SK")

\* ensure_table's first describe_table found the table
FoundAtStart == calls # <<>> /\ calls[1] = [op |-> "describe_table", found |-> TRUE]

CallsOf(op) == { i \in DOMAIN calls : calls[i].op = op }

Exited == pc = "exit"

ProvisionErrors == {"ClientError", "RuntimeError", "TimeoutError"}

\* ensure_table has returned normally
Ensured == pc = "ensured" \/ pc \in SeedingPcs \/ (Exited /\ raised \notin ProvisionErrors)

----------------------------------------------------------------------------
(* C1 *)

\* C1 as stated: in a run without recreate that finds the table lacking GSI1
\* or LSI1, nothing is ever put and the process ends with a non-zero status
C1_Original ==
    (~args.recreate /\ FoundAtStart /\ ~HasBothIndexes(table0))
        => /\ puts = <<>>
           /\ Exited => exitCode # 0

\* C1, amended: in a run with neither recreate nor recreate-if-missing-indexes
\* that finds the table lacking GSI1 or LSI1, nothing is ever put, no table
\* request but the describe is issued, and the process ends with status 1
C1_MissingIndexIsFatal ==
    (~args.recreate /\ ~args.recreate_if_missing_indexes
        /\ FoundAtStart /\ ~HasBothIndexes(table0))
        => /\ puts = <<>>
           /\ Exited
           /\ exitCode = 1
           /\ raised = "RuntimeError"

C1_Witness ==
    /\ ~args.recreate /\ ~args.recreate_if_missing_indexes
    /\ FoundAtStart
    /\ HasIndex(table0.gsis, "GSI1", "GSI1PK", "GSI1SK")
    /\ ~HasIndex(table0.lsis, "LSI1", "PK", "LSI1SK")
    /\ Exited /\ exitCode = 1 /\ puts = <<>>

----------------------------------------------------------------------------
(* C2 *)

\* create_table is never issued before a delete_table and, after it, a return
\* of wait_deleted
CreateFollowsDeletion ==
    \A k \in CallsOf("create_table") :
        \E i \in CallsOf("delete_table"), j \in CallsOf("wait_deleted_returned") :
            i < j /\ j < k

\* every create_table issued defines exactly the indexes GSI1 and LSI1
CreateDefinesBothIndexes ==
    \A k \in CallsOf("create_table") :
        /\ Len(calls[k].gsis) = 1 /\ HasIndex(calls[k].gsis, "GSI1", "GSI1PK", "GSI1SK")
        /\ Len(calls[k].lsis) = 1 /\ HasIndex(calls[k].lsis, "LSI1", "PK", "LSI1SK")

\* C2 as stated: in a run with recreate that finds the table, create_table
\* comes after delete_table and wait_deleted's return, and by the end of the
\* run delete_table was issued and create_table was issued exactly once, with
\* the two indexes
C2_Original ==
    (args.recreate /\ FoundAtStart)
        => /\ CreateFollowsDeletion
           /\ CreateDefinesBothIndexes
           /\ Exited => /\ CallsOf("delete_table") # {}
                        /\ Cardinality(CallsOf("create_table")) = 1

\* C2, amended: in a run with recreate that finds the table, create_table is
\* issued at most once, only after delete_table and wait_deleted's return,
\* and with exactly GSI1 and LSI1; it is issued exactly once (and
\* delete_table exactly once) in every such run in which neither delete_table
\* nor wait_deleted raises
C2_DeleteBeforeCreate ==
    (args.recreate /\ FoundAtStart)
        => /\ CreateFollowsDeletion
           /\ CreateDefinesBothIndexes
           /\ Cardinality(CallsOf("create_table")) <= 1
           /\ (CallsOf("wait_deleted_returned") # {} /\ pc # "create_table")
                 => /\ Cardinality(CallsOf("delete_table")) = 1
                    /\ Cardinality(CallsOf("create_table")) = 1
           /\ Ensured => Cardinality(CallsOf("create_table")) = 1

C2_Witness ==
    /\ args.recreate /\ FoundAtStart
    /\ pc = "ensured"
    /\ Len(calls) = 4
    /\ calls[2].op = "delete_table"
    /\ calls[3].op = "wait_deleted_returned"
    /\ calls[4].op = "create_table"

----------------------------------------------------------------------------
(* C3 *)

\* C3 as stated: in a run with skip-if-exists and without recreate that finds
\* the table, nothing is ever put, whatever recreate-if-missing-indexes and
\* the table's indexes are
C3_Original ==
    (FoundAtStart /\ args.skip_if_exists /\ ~args.recreate) => puts = <<>>

\* C3, amended: in a run with skip-if-exists and without recreate that finds
\* the table, nothing is ever put unless recreate-if-missing-indexes is set
\* and the table found lacks GSI1 or LSI1 (it is then dropped, created anew
\* and seeded); in particular nothing is put when the table found is the one
\* a previous run left, which has both indexes
C3_SkipIfExists ==
    (FoundAtStart /\ args.skip_if_exists /\ ~args.recreate
        /\ ~(args.recreate_if_missing_indexes /\ ~HasBothIndexes(table0)))
        => /\ puts = <<>>
           /\ pc \notin SeedingPcs

C3_Witness ==
    /\ FoundAtStart /\ args.skip_if_exists /\ ~args.recreate
    /\ HasBothIndexes(table0)
    /\ Exited /\ exitCode = 0 /\ raised = "" /\ puts = <<>>

----------------------------------------------------------------------------
(* C4 *)

\* C4: in a run without recreate, delete_table is issued only if
\* recreate-if-missing-indexes is set and the table found lacks GSI1 or LSI1;
\* for a table found with both indexes neither delete_table nor create_table
\* is issued; and with neither flag set, a table found lacking an index ends
\* the run with RuntimeError, no delete_table and no create_table
C4_RecreatePolicy ==
    ~args.recreate =>
        /\ CallsOf("delete_table") # {}
              => (args.recreate_if_missing_indexes /\ FoundAtStart /\ ~HasBothIndexes(table0))
        /\ (FoundAtStart /\ HasBothIndexes(table0))
              => (CallsOf("delete_table") = {} /\ CallsOf("create_table") = {})
        /\ (FoundAtStart /\ ~HasBothIndexes(table0) /\ ~args.recreate_if_missing_indexes)
              => /\ raised = "RuntimeError"
                 /\ CallsOf("delete_table") = {}
                 /\ CallsOf("create_table") = {}

C4_Witness ==
    /\ ~args.recreate /\ args.recreate_if_missing_indexes
    /\ FoundAtStart /\ ~HasBothIndexes(table0)
    /\ CallsOf("delete_table") # {} /\ CallsOf("create_table") # {}
    /\ pc = "ensured"

----------------------------------------------------------------------------
(* C5 *)

\* C5: once ensure_table has returned normally, and so all through the
\* seeding, the table is ACTIVE and carries GSI1 and LSI1 with the expected
\* key schemas
C5_EnsuredTableIsReady ==
    Ensured => (table.status = "ACTIVE" /\ HasBothIndexes(table))

C5_Witness ==
    /\ pc = "ensured"
    /\ table0.status = "ACTIVE" /\ ~HasBothIndexes(table0)
    /\ args.recreate_if_missing_indexes /\ ~args.recreate
    /\ table.status = "ACTIVE" /\ HasBothIndexes(table)

----------------------------------------------------------------------------
(* C6 *)

\* C6 as stated: a run in which ensure_table raised ends with status 1 and
\* no put; every other run ends with status 0
C6_Original ==
    Exited =>
        IF raised \in ProvisionErrors
        THEN exitCode = 1 /\ puts = <<>>
        ELSE exitCode = 0

\* C6, amended: a run in which ensure_table raised ends with status 1 and no
\* put; a run in which a write of the seeding raised ends with a non-zero
\* status too (the exception is not caught); every other run ends with
\* status 0
C6_ExitCodes ==
    Exited =>
        IF raised \in ProvisionErrors
        THEN exitCode = 1 /\ puts = <<>>
        ELSE IF raised = "WriteError"
        THEN exitCode # 0
        ELSE raised = "" /\ exitCode = 0

C6_Witness ==
    /\ Exited /\ raised = "TimeoutError" /\ exitCode = 1 /\ puts = <<>>
    /\ CallsOf("create_table") # {}

----------------------------------------------------------------------------
(* C7 *)

WaitDeletedPcs == {"wait_deleted_153", "wait_deleted_161"}
WaitPcs == WaitDeletedPcs \cup {"wait_table_active"}
EnsureTablePcs ==
    WaitPcs \cup {"ensure_table", "delete_missing", "delete_recreate", "create_table"}

\* C7: a wait that has begun comes to an end, whatever the service does, and
\* so does ensure_table; a wait raises TimeoutError only once more than
\* timeout_s has elapsed, never begins a turn later than one sleep after
\* timeout_s, and is left normally only on the state it waits for (the table
\* gone for wait_deleted, the table ACTIVE for wait_table_active)
C7_WaitsTerminate ==
    /\ [](raised = "TimeoutError" => elapsed > timeout_s * TicksPerSecond)
    /\ [](pc \in WaitPcs => elapsed <= timeout_s * TicksPerSecond + 1)
    /\ [][(pc \in WaitDeletedPcs /\ pc' \notin WaitDeletedPcs /\ pc' # "exit")
            => table.status = "ABSENT"]_vars
    /\ [][(pc = "wait_table_active" /\ pc' # "wait_table_active" /\ pc' # "exit")
            => table.status = "ACTIVE"]_vars
    /\ (pc \in WaitDeletedPcs) ~> (pc \notin WaitDeletedPcs)
    /\ (pc = "wait_table_active") ~> (pc # "wait_table_active")
    /\ <>(pc \notin EnsureTablePcs)

\* wait_deleted gave up on a table that never went away, after polling it
\* through the whole of timeout_s
C7_Witness ==
    /\ Exited /\ raised = "TimeoutError"
    /\ table.status = "DELETING"
    /\ CallsOf("delete_table") # {}
    /\ elapsed = timeout_s * TicksPerSecond + 1

----------------------------------------------------------------------------
(* C8 *)

\* the sum of f[x] over the finite set S
RECURSIVE SumOver(_, _)
SumOver(S, f) ==
    IF S = {} THEN 0
    ELSE LET x == CHOOSE y \in S : TRUE IN f[x] + SumOver(S \ {x}, f)

\* unit_price times quantity of the put at each position (cents)
PutAmount == [ i \in DOMAIN puts |->
                 IF puts[i].Item.type = "InvoiceLine"
                 THEN puts[i].Item.unit_price * puts[i].Item.quantity ELSE 0 ]

\* the positions of the lines put by the turn `inv` of the invoice loop
LinePutsOf(inv) ==
    { j \in DOMAIN puts : puts[j].inv = inv /\ puts[j].Item.type = "InvoiceLine" }

\* the lines stored under one invoice id, and their amounts
StoredLinesOf(inv_id) == { l \in items : l.type = "InvoiceLine" /\ l.PK = inv_id }
StoredAmount == [ l \in { i \in items : i.type = "InvoiceLine" }
                    |-> l.unit_price * l.quantity ]

SeedFinished == Exited /\ raised = ""

\* C8: every put of an invoice that carries a total carries the sum of
\* unit_price * quantity, in whole cents, over the lines_per_invoice lines put
\* for that invoice, which is 0 when there are no lines; and when the run is
\* over and no id was drawn twice, every invoice stored carries the sum over
\* the lines stored under its id
C8_InvoiceTotal ==
    /\ \A i \in DOMAIN puts :
        "total" \in DOMAIN puts[i].Item =>
            /\ Cardinality(LinePutsOf(puts[i].inv)) = sizes.lines_per_invoice
            /\ puts[i].Item.total = SumOver(LinePutsOf(puts[i].inv), PutAmount)
            /\ sizes.lines_per_invoice = 0 => puts[i].Item.total = 0
    /\ (SeedFinished /\ ~seed.collided) =>
        \A inv \in { i \in items : i.type = "Invoice" } :
            /\ "total" \in DOMAIN inv
            /\ Cardinality(StoredLinesOf(inv.SK)) = sizes.lines_per_invoice
            /\ inv.total = SumOver(StoredLinesOf(inv.SK), StoredAmount)

\* an invoice of two lines, 1 x 0.49 and 3 x 1.99, stored with total 6.46
C8_Witness ==
    /\ SeedFinished /\ ~seed.collided
    /\ \E inv \in items :
        /\ inv.type = "Invoice" /\ "total" \in DOMAIN inv /\ inv.total = 646
        /\ { <<l.unit_price, l.quantity>> : l \in StoredLinesOf(inv.SK) }
              = { <<49, 1>>, <<199, 3>> }

----------------------------------------------------------------------------
(* C9 *)

Stored(type) == Cardinality({ i \in items : i.type = type })

\* C9: with sizes 2, 1, 1, 1, 1, 2 and no id drawn twice, a finished seeding
\* leaves 2 Artist, 2 Album, 2 Track, 1 Customer, 1 Invoice and 2 InvoiceLine
\* records, 10 records in all
C9_RecordCounts ==
    (SeedFinished /\ ~seed.collided /\ sizes = Sizes(2, 1, 1, 1, 1, 2)) =>
        /\ Stored("Artist") = 2
        /\ Stored("Album") = 2
        /\ Stored("Track") = 2
        /\ Stored("Customer") = 1
        /\ Stored("Invoice") = 1
        /\ Stored("InvoiceLine") = 2
        /\ Cardinality(items) = 10

\* C9 as stated: the same six counts, and 8 records in all
C9_Original ==
    (SeedFinished /\ ~seed.collided /\ sizes = Sizes(2, 1, 1, 1, 1, 2)) =>
        /\ Stored("Artist") = 2
        /\ Stored("Album") = 2
        /\ Stored("Track") = 2
        /\ Stored("Customer") = 1
        /\ Stored("Invoice") = 1
        /\ Stored("InvoiceLine") = 2
        /\ Cardinality(items) = 8

C9_Witness ==
    /\ SeedFinished /\ ~seed.collided /\ sizes = Sizes(2, 1, 1, 1, 1, 2)
    /\ Len(puts) = 11
    /\ Cardinality(items) = 10

----------------------------------------------------------------------------
(* C10 *)

\* the turns of the invoice loop that have put something
InvoiceTurns == { puts[i].inv : i \in DOMAIN puts } \ { <<0, 0>> }

PutsOf(inv) == { i \in DOMAIN puts : puts[i].inv = inv }
First(S) == CHOOSE i \in S : \A j \in S : i <= j
Final(S) == CHOOSE i \in S : \A j \in S : j <= i

SameKey(a, b) == a.PK = b.PK /\ a.SK = b.SK

\* the turn has put its invoice for the second time
Closed(inv) == \E i \in PutsOf(inv) : "total" \in DOMAIN puts[i].Item

\* C10: a turn of the invoice loop first puts the invoice (PK the id of the
\* customer put last, SK the invoice's id) without a total, then only lines of that invoice,
\* and closes with a second put under the same key that carries the total,
\* after lines_per_invoice lines; the second put equals the first in every
\* attribute (type, ts, GSI1PK, GSI1SK, LSI1SK among them) and adds only the
\* total; these are the turn's only two puts under that key, and the only two
\* of the run when no id is drawn twice; and when the run is over the record
\* stored under each invoice key is one that holds a total
C10_InvoicePutTwice ==
    /\ \A inv \in InvoiceTurns :
        LET S == PutsOf(inv)
            first == puts[First(S)].Item
            final == puts[Final(S)].Item
        IN  /\ first.type = "Invoice" /\ "total" \notin DOMAIN first
            /\ first.SK = first.invoice_id
            /\ \E c \in 1..(First(S) - 1) :
                  /\ puts[c].Item.type = "Customer" /\ puts[c].Item.PK = first.PK
                  /\ \A j \in (c + 1)..(First(S) - 1) : puts[j].Item.type # "Customer"
            /\ \A i \in S \ {First(S), Final(S)} :
                  /\ puts[i].Item.type = "InvoiceLine"
                  /\ puts[i].Item.PK = first.SK
            /\ ~Closed(inv) =>
                  (Final(S) = First(S) \/ final.type = "InvoiceLine")
            /\ Closed(inv) =>
                  /\ Final(S) # First(S)
                  /\ SameKey(final, first)
                  /\ DOMAIN final = DOMAIN first \cup {"total"}
                  /\ \A k \in DOMAIN first : final[k] = first[k]
                  /\ final.type = first.type /\ final.ts = first.ts
                  /\ final.GSI1PK = first.GSI1PK /\ final.GSI1SK = first.GSI1SK
                  /\ final.LSI1SK = first.LSI1SK
                  /\ Cardinality(S) = sizes.lines_per_invoice + 2
                  /\ { i \in S : SameKey(puts[i].Item, first) } = {First(S), Final(S)}
                  /\ ~seed.collided =>
                        { i \in DOMAIN puts : SameKey(puts[i].Item, first) }
                            = {First(S), Final(S)}
    /\ SeedFinished =>
        \A i \in DOMAIN puts :
            puts[i].Item.type = "Invoice" =>
                \E r \in items : SameKey(r, puts[i].Item) /\ "total" \in DOMAIN r

\* a finished run whose invoice was put, then its two lines, then put again
C10_Witness ==
    /\ SeedFinished /\ sizes.lines_per_invoice = 2
    /\ \E inv \in InvoiceTurns :
        /\ Closed(inv)
        /\ Cardinality(PutsOf(inv)) = 4
        /\ "total" \notin DOMAIN puts[First(PutsOf(inv))].Item
        /\ puts[Final(PutsOf(inv))].Item.total > 0
        /\ puts[Final(PutsOf(inv))].Item.LSI1SK
              = "INVOICE#" \o "1762166400" \o "#INVOICE#1"

====
